---- MODULE Spec2Model ----
(***************************************************************************)
(* Caching, retry, rate-limiting and circuit-breaking fragments of the     *)
(* crypto analytics servers, modelled component by component.  Each        *)
(* component has its own specification (SpecGcf, SpecMLC, ...) over the    *)
(* shared variable list; a component's actions leave the other             *)
(* components' variables unchanged.                                        *)
(***************************************************************************)
EXTENDS Integers, Sequences, FiniteSets, TLC

\* ------------------------------------------------------------------------
\* Bounds
\* ------------------------------------------------------------------------
\* Largest clock value (seconds) the model explores.
MaxTime == 3

\* Cache keys and payloads.
Keys == {"k1", "k2"}
Values == {"v1", "v2"}

\* Marker for "no entry" / Python None.
None == "None"

VARIABLES
    component,  \* which of the modelled objects this run exercises
    now,        \* time.time(), in whole seconds
    cache,      \* crypto_server.cache: dict key -> [data, timestamp]
    gcfCall,    \* the last get_cached_or_fetch call and what it returned
    l1_cache,   \* MultiLevelCache.l1_cache: LRUCache, least recently used first
    l2_cache,   \* MultiLevelCache.l2_cache: TTLCache, least recently used first
    l3_redis,   \* the Redis keys sc_cache:*: key -> [text, left]
    redis_available, \* MultiLevelCache.redis_available
    hit_stats,  \* MultiLevelCache.hit_stats
    lastSet,    \* history: per key, the arguments and time of the last set
    mlcCall,    \* the last MultiLevelCache step and what it returned
    memory_cache,            \* UltimateCacheManager.memory_cache
    memory_cache_timestamps, \* UltimateCacheManager.memory_cache_timestamps
    ucm_redis,  \* the keys UltimateCacheManager keeps in Redis: key -> [text, left]
    REDIS_AVAILABLE, \* crypto_server_ultimate.REDIS_AVAILABLE
    stats,      \* UltimateCacheManager.stats
    ucmCall,    \* the last UltimateCacheManager step and what it returned
    rCall,      \* the retrying fetch in progress: [fn, max, delay]
    attempt,    \* the loop variable of its `for attempt in range(max)`
    pc,         \* "loop" while the fetch runs, "done" once it has returned or raised
    responses,  \* what upstream answered to each request so far
    sleeps,     \* the arguments of the time.sleep calls so far, in ms
    result,     \* what the fetch returned or raised
    rl_keys,    \* the Redis keys rate_limit:<identifier>:minute: id -> [count, left]
    rlHist,     \* history: per identifier, the calls since its counter was opened
    rlCall,     \* the last RateLimiter step and what it returned
    breaker,    \* the CircuitBreaker that @circuit attaches to UltimateHTTPClient.get
    consecFailures, \* history: failed upstream calls in a row through get
    cbCall,     \* the last UltimateHTTPClient.get call and what it did
    svcFailures, \* history: per service, its calls in a row that left get as an exception
    keyLog,     \* history: the calls of _generate_cache_key so far, with their results
    sc_cache,   \* SuperClaudeAPIClient.cache: cache_key -> [result, time]
    metrics,    \* PerformanceMonitor.metrics (the counters)
    scCall,     \* the last SuperClaudeAPIClient.fetch_* call and what it did
    scFetches,  \* history: the number of fetch_* calls made
    thr,        \* threads on the cache manager: name -> [pc, key, todo]
    raisedOps,  \* history: the threads whose operation ended in an exception
    crFunc,     \* the function wrapped by cached_result: argument -> result
    crCall,     \* the last call of the wrapped function and what it did
    callers,    \* the threads inside get_cached_or_fetch: caller -> [pc, data, ret]
    fetchCalls, \* history: how many times fetch_function has been invoked
    writes,     \* history: the entries stored in cache, in the order of the stores
    futures,    \* fetch_multiple_endpoints: config -> [state, yielded] of its future
    results,    \* its local list `results`
    fanPc       \* where it is: "start", "collect", "returned" or "raised"

gcfVars == <<cache, gcfCall>>
mlcVars == <<l1_cache, l2_cache, l3_redis, redis_available, hit_stats, lastSet, mlcCall>>
ucmVars == <<memory_cache, memory_cache_timestamps, ucm_redis, REDIS_AVAILABLE, stats, ucmCall>>
vars == <<component, now, cache, gcfCall, l1_cache, l2_cache, l3_redis, redis_available,
          hit_stats, lastSet, mlcCall, memory_cache, memory_cache_timestamps, ucm_redis,
          REDIS_AVAILABLE, stats, ucmCall, rCall, attempt, pc, responses, sleeps, result,
          rl_keys, rlHist, rlCall, breaker, consecFailures, cbCall,
          callers, fetchCalls, writes, futures, results, fanPc, svcFailures,
          keyLog, sc_cache, metrics, scCall, scFetches, thr, raisedOps,
          crFunc, crCall>>
retryVars == <<rCall, attempt, pc, responses, sleeps, result>>
rlVars == <<rl_keys, rlHist, rlCall>>
cbVars == <<breaker, consecFailures, cbCall, svcFailures>>
coldVars == <<callers, fetchCalls, writes>>
fanVars == <<futures, results, fanPc>>
keyVars == <<keyLog>>
scVars == <<sc_cache, metrics, scCall, scFetches>>
invVars == <<thr, raisedOps>>
crVars == <<crFunc, crCall>>

\* What the steps of one object leave alone: the other objects.
othersGcf == <<component, mlcVars, ucmVars, retryVars, rlVars, cbVars, coldVars, fanVars, keyVars, scVars,
              invVars, crVars>>
othersMlc == <<component, now, gcfVars, ucmVars, retryVars, rlVars, cbVars, coldVars, fanVars, keyVars, scVars,
              invVars, crVars>>
othersUcm == <<component, gcfVars, mlcVars, retryVars, rlVars, cbVars, coldVars, fanVars, keyVars, scVars,
              invVars, crVars>>
othersRetry == <<component, now, gcfVars, mlcVars, ucmVars, rlVars, cbVars, coldVars, fanVars, keyVars, scVars,
              invVars, crVars>>
othersRl == <<component, now, gcfVars, mlcVars, ucmVars, retryVars, cbVars, coldVars, fanVars, keyVars, scVars,
              invVars, crVars>>
othersCb == <<component, gcfVars, mlcVars, ucmVars, retryVars, rlVars, coldVars, fanVars, keyVars, scVars,
              invVars, crVars>>
othersCold == <<component, gcfCall, mlcVars, ucmVars, retryVars, rlVars, cbVars, fanVars, keyVars, scVars,
              invVars, crVars>>
othersFan == <<component, gcfVars, mlcVars, ucmVars, retryVars, rlVars, cbVars, coldVars,
              keyVars, scVars, invVars, crVars>>
othersKey == <<component, now, gcfVars, mlcVars, ucmVars, retryVars, rlVars, cbVars, coldVars,
              fanVars, scVars, invVars, crVars>>
othersSc == <<component, gcfVars, mlcVars, ucmVars, retryVars, rlVars, cbVars, coldVars,
             fanVars, keyVars, invVars, crVars>>
othersInv == <<component, now, gcfVars, mlcVars, ucm_redis, REDIS_AVAILABLE, stats, ucmCall,
               retryVars, rlVars, cbVars, coldVars, fanVars, keyVars, scVars, crVars>>
othersCr == <<component, now, gcfVars, ucmVars, retryVars, rlVars, cbVars, coldVars, fanVars,
              keyVars, scVars, invVars>>

\* ------------------------------------------------------------------------
\* crypto_server.py: module-level cache and get_cached_or_fetch
\* ------------------------------------------------------------------------
\* cache_timeout = 300 in the source; scaled to keep the clock small.
cache_timeout == 2

\* Python dict assignment d[k] = v and removal of a key.
Put(d, k, v) == [x \in DOMAIN d \cup {k} |-> IF x = k THEN v ELSE d[x]]
Drop(d, k) == [x \in DOMAIN d \ {k} |-> d[x]]

\* is_cache_valid(key): entry present and younger than cache_timeout.
is_cache_valid(key) ==
    /\ key \in DOMAIN cache
    /\ (now - cache[key].timestamp) < cache_timeout

\* What fetch_function() can do: return some data or raise.
FetchOutcomes == [tag : {"ok"}, data : Values] \cup {[tag |-> "raise", data |-> None]}

\* The value returned by get_cached_or_fetch on the path where the fetch
\* raised: the code builds {'error': ...} whatever the cache holds.
GcfErrorReturn(key) == [tag |-> "error", data |-> None, stale |-> FALSE]

\* A get_cached_or_fetch that also stores what its except clause returns.
get_cached_or_fetch_CacheErrors(key, outcome) ==
    LET hadEntry == key \in DOMAIN cache
        prior == IF hadEntry THEN cache[key].data ELSE None
    IN
    IF is_cache_valid(key)
    THEN /\ gcfCall' = [key |-> key, path |-> "cached", fetched |-> FALSE,
                        hadEntry |-> hadEntry, prior |-> prior,
                        ret |-> [tag |-> "data", data |-> cache[key].data, stale |-> FALSE]]
         /\ UNCHANGED cache
    ELSE IF outcome.tag = "ok"
    THEN /\ cache' = Put(cache, key, [data |-> outcome.data, timestamp |-> now])
         /\ gcfCall' = [key |-> key, path |-> "fresh", fetched |-> TRUE,
                        hadEntry |-> hadEntry, prior |-> prior,
                        ret |-> [tag |-> "data", data |-> outcome.data, stale |-> FALSE]]
    ELSE /\ cache' = Put(cache, key, [data |-> None, timestamp |-> now])
         /\ gcfCall' = [key |-> key, path |-> "failed", fetched |-> TRUE,
                        hadEntry |-> hadEntry, prior |-> prior,
                        ret |-> GcfErrorReturn(key)]

\* get_cached_or_fetch(key, fetch_function), the whole call.
get_cached_or_fetch(key, outcome) ==
    LET hadEntry == key \in DOMAIN cache
        prior == IF hadEntry THEN cache[key].data ELSE None
    IN
    IF is_cache_valid(key)
    THEN /\ gcfCall' = [key |-> key, path |-> "cached", fetched |-> FALSE,
                        hadEntry |-> hadEntry, prior |-> prior,
                        ret |-> [tag |-> "data", data |-> cache[key].data, stale |-> FALSE]]
         /\ UNCHANGED cache
    ELSE IF outcome.tag = "ok"
    THEN /\ cache' = Put(cache, key, [data |-> outcome.data, timestamp |-> now])
         /\ gcfCall' = [key |-> key, path |-> "fresh", fetched |-> TRUE,
                        hadEntry |-> hadEntry, prior |-> prior,
                        ret |-> [tag |-> "data", data |-> outcome.data, stale |-> FALSE]]
    ELSE /\ gcfCall' = [key |-> key, path |-> "failed", fetched |-> TRUE,
                        hadEntry |-> hadEntry, prior |-> prior,
                        ret |-> GcfErrorReturn(key)]
         /\ UNCHANGED cache

GcfGet ==
    /\ \E key \in Keys, outcome \in FetchOutcomes : get_cached_or_fetch(key, outcome)
    /\ UNCHANGED <<now, othersGcf>>

\* The wall clock advances between calls.
GcfTick ==
    /\ now < MaxTime
    /\ now' = now + 1
    /\ UNCHANGED <<gcfVars, othersGcf>>


\* ------------------------------------------------------------------------
\* crypto_server.py: get_cached_or_fetch called from several request threads
\* (app.run(threaded=True)) for the same key, statement by statement
\* ------------------------------------------------------------------------
\* Number of threads calling at the same time.
NumCallers == 2
Callers == 1..NumCallers

\* The key all of them ask for.
ColdKey == "k1"

\* A caller that has not returned yet has no result.
NoRet == [tag |-> "none", data |-> None]

Frame(p, d, r) == [pc |-> p, data |-> d, ret |-> r]

\* if is_cache_valid(key): return cache[key]['data']
GcfCheck(t) ==
    /\ callers[t].pc = "check"
    /\ callers' = [callers EXCEPT ![t] =
                      IF is_cache_valid(ColdKey)
                      THEN Frame("done", None, [tag |-> "data", data |-> cache[ColdKey].data])
                      ELSE Frame("fetch", None, NoRet)]
    /\ UNCHANGED <<cache, now, fetchCalls, writes>>

\* data = fetch_function(); an exception goes to the except clause, which
\* returns {'error': ...}.
GcfFetch(t, outcome) ==
    /\ callers[t].pc = "fetch"
    /\ fetchCalls' = fetchCalls + 1
    /\ callers' = [callers EXCEPT ![t] =
                      IF outcome.tag = "ok"
                      THEN Frame("store", outcome.data, NoRet)
                      ELSE Frame("done", None, [tag |-> "error", data |-> None])]
    /\ UNCHANGED <<cache, now, writes>>

\* A store that leaves an entry alone which another thread has just written.
GcfStore_FirstWins(t) ==
    LET e == [data |-> callers[t].data, timestamp |-> now]
        skip == is_cache_valid(ColdKey)
    IN
    /\ callers[t].pc = "store"
    /\ cache' = IF skip THEN cache ELSE Put(cache, ColdKey, e)
    /\ writes' = Append(writes, e)
    /\ callers' = [callers EXCEPT ![t] =
                      Frame("done", None, [tag |-> "data", data |-> callers[t].data])]
    /\ UNCHANGED <<now, fetchCalls>>

\* cache[key] = {'data': data, 'timestamp': time.time()}; return data
GcfStore(t) ==
    LET e == [data |-> callers[t].data, timestamp |-> now]
    IN
    /\ callers[t].pc = "store"
    /\ cache' = Put(cache, ColdKey, e)
    /\ writes' = Append(writes, e)
    /\ callers' = [callers EXCEPT ![t] =
                      Frame("done", None, [tag |-> "data", data |-> callers[t].data])]
    /\ UNCHANGED <<now, fetchCalls>>

ColdCheckStep == (\E t \in Callers : GcfCheck(t)) /\ UNCHANGED othersCold

ColdFetchStep ==
    /\ \E t \in Callers, outcome \in FetchOutcomes : GcfFetch(t, outcome)
    /\ UNCHANGED othersCold

ColdStoreStep == (\E t \in Callers : GcfStore(t)) /\ UNCHANGED othersCold

\* Time passes while the threads run.
ColdTick ==
    /\ now < MaxTime
    /\ now' = now + 1
    /\ UNCHANGED <<cache, coldVars, othersCold>>

\* Every thread is about to enter get_cached_or_fetch.
InitCold ==
    /\ callers = [t \in Callers |-> Frame("check", None, NoRet)]
    /\ fetchCalls = 0
    /\ writes = << >>

\* The cache the threads find: no entry for the key, or an expired one.
ColdCaches ==
    { << >>, [k \in {ColdKey} |-> [data |-> "v1", timestamp |-> 0 - cache_timeout]] }

NextCold == ColdCheckStep \/ ColdFetchStep \/ ColdStoreStep \/ ColdTick

\* ------------------------------------------------------------------------
\* performance_optimization.py: MultiLevelCache
\* ------------------------------------------------------------------------
\* perf_config.memory_cache_size = 1000, memory_cache_ttl = 300 and
\* redis_cache_ttl = 900 in the source; scaled, keeping their order.
memory_cache_size == 1
memory_cache_ttl == 2
redis_cache_ttl == 3

\* Python values handed to set: a dict and a tuple.  A list is what a tuple
\* comes back as from JSON.
SetValues == {"dict1", "tuple1"}
\* The ttl argument of set; 0 stands for None (both are falsy in `ttl or ...`).
TtlArgs == {0, 1}

\* json.dumps(value, default=str): tuples and lists both become arrays.
json_dumps(v) ==
    CASE v = "dict1" -> "{1}"
      [] v = "tuple1" -> "[1]"
      [] v = "list1" -> "[1]"
      [] OTHER -> "null"

\* json.loads(text): arrays become lists.
json_loads(t) ==
    CASE t = "{1}" -> "dict1"
      [] t = "[1]" -> "list1"
      [] OTHER -> None

\* Entries of an in-process cache are kept least recently used first.
Has(c, k) == \E i \in 1..Len(c) : c[i].k = k
Entry(c, k) == c[CHOOSE i \in 1..Len(c) : c[i].k = k]
Without(c, k) == SelectSeq(c, LAMBDA e : e.k # k)

\* cachetools.LRUCache.__getitem__: marks the key most recently used.
LruTouch(c, k) == Append(Without(c, k), Entry(c, k))

\* cachetools.LRUCache.__setitem__: a new key evicts the least recently
\* used entry when the cache is full; the key becomes most recently used.
LruSet(c, k, v, maxsize) ==
    IF Has(c, k)
    THEN Append(Without(c, k), [k |-> k, v |-> v])
    ELSE Append(IF Len(c) >= maxsize THEN Tail(c) ELSE c, [k |-> k, v |-> v])

\* cachetools.TTLCache.__setitem__: evicts the least recently used entry
\* when full and stores the key with a fresh expiry (expires = time + ttl).
\* Expiry is kept as the time left, left = expires - timer(); an entry is
\* visible while left > 0 and MlcTick drops it when left reaches 0 (the
\* library hides it from then on and unlinks it at the next mutation).
TtlSet(c, k, v, maxsize) ==
    LET e == [k |-> k, v |-> v, left |-> memory_cache_ttl]
    IN IF Has(c, k)
       THEN Append(Without(c, k), e)
       ELSE Append(IF Len(c) >= maxsize THEN Tail(c) ELSE c, e)

\* One second passes for a sequence of TTL entries / a Redis keyspace.
AgeSeq(c) == LET d == [i \in 1..Len(c) |-> [c[i] EXCEPT !.left = @ - 1]]
             IN SelectSeq(d, LAMBDA e : e.left > 0)
AgeMap(m) == [k \in {x \in DOMAIN m : m[x].left > 1} |-> [m[k] EXCEPT !.left = @ - 1]]

\* Redis GET finds the key until its SETEX time-to-live runs out.
RedisHas(k) == k \in DOMAIN l3_redis

\* A Redis command either completes or raises (connection refused, timeout).
RedisOutcomes == {"ok", "raise"}

\* The history variable after a step: lastSet[k] exists from a set of k to
\* the next delete of k; the key stays "held" while it has been in L1 or L2
\* without interruption since that set, and is "lost" after.
Track(ls, l1, l2) ==
    [k \in DOMAIN ls |->
        IF ls[k].status = "held" /\ ~Has(l1, k) /\ ~Has(l2, k)
        THEN [ls[k] EXCEPT !.status = "lost"]
        ELSE ls[k]]

\* The fastest tier holding the key, and whether the key has been held in
\* process since its last set.
PreOf(key) ==
    [first |-> CASE Has(l1_cache, key) -> "l1"
                 [] ~Has(l1_cache, key) /\ Has(l2_cache, key) -> "l2"
                 [] ~Has(l1_cache, key) /\ ~Has(l2_cache, key) /\ RedisHas(key) -> "l3"
                 [] OTHER -> "none",
     held |-> key \in DOMAIN lastSet /\ lastSet[key].status = "held"]

NoPre == [first |-> "none", held |-> FALSE]

\* What mlcCall records for a step that is not a get.
OtherCall(op) == [op |-> op, key |-> None, ret |-> None, tier |-> "none", pre |-> NoPre,
                  down |-> FALSE, raised |-> FALSE]

\* Redis is of no use to a call: the client was never configured, or the
\* command the call issues raises.
RedisDown(available, redis) == ~available \/ redis = "raise"

\* Without the handler, the error of the Redis command leaves the call.
RedisErrorLeaves_NoHandler(available, redis) == available /\ redis = "raise"

\* Whether the error of a Redis command leaves the call: every Redis command
\* of the two caches sits in `try: ... except Exception` whose handler logs
\* (or passes) and falls through to the code after it.
RedisErrorLeaves(available, redis) == FALSE

\* A get that skips the L2 lookup and goes from L1 straight to Redis.
MlcGetResult_SkipL2(key, redis) ==
    IF Has(l1_cache, key)
    THEN [tier |-> "l1", ret |-> Entry(l1_cache, key).v]
    ELSE IF redis_available /\ redis = "ok" /\ RedisHas(key)
    THEN [tier |-> "l3", ret |-> json_loads(l3_redis[key].text)]
    ELSE [tier |-> "miss", ret |-> None]

\* MultiLevelCache.get(key): the tier that answers and the value returned.
MlcGetResult(key, redis) ==
    IF Has(l1_cache, key)
    THEN [tier |-> "l1", ret |-> Entry(l1_cache, key).v]
    ELSE IF Has(l2_cache, key)
    THEN [tier |-> "l2", ret |-> Entry(l2_cache, key).v]
    ELSE IF redis_available /\ redis = "ok" /\ RedisHas(key)
    THEN [tier |-> "l3", ret |-> json_loads(l3_redis[key].text)]
    ELSE [tier |-> "miss", ret |-> None]

\* What Redis does to a get: the GET command is issued, and can raise, only
\* when neither L1 nor L2 holds the key.
MlcRedisOutcome(key, redis) ==
    IF Has(l1_cache, key) \/ Has(l2_cache, key) THEN "ok" ELSE redis

\* A get that promotes a Redis hit into L2 only, not into L1.
MlcGet_NoL1Promotion(key, redis) ==
    LET r == MlcGetResult(key, redis)
        l1n == CASE r.tier = "l1" -> LruTouch(l1_cache, key)
                 [] r.tier = "l2" -> LruSet(l1_cache, key, r.ret, memory_cache_size)
                 [] OTHER -> l1_cache
        l2n == CASE r.tier = "l2" -> LruTouch(l2_cache, key)
                 [] r.tier = "l3" -> TtlSet(l2_cache, key, r.ret, memory_cache_size * 2)
                 [] OTHER -> l2_cache
    IN
    /\ l1_cache' = l1n
    /\ l2_cache' = l2n
    /\ hit_stats' = [hit_stats EXCEPT ![r.tier] = @ + 1]
    /\ lastSet' = Track(lastSet, l1n, l2n)
    /\ mlcCall' = [op |-> "get", key |-> key, ret |-> r.ret, tier |-> r.tier,
                   pre |-> PreOf(key),
                   down |-> RedisDown(redis_available, MlcRedisOutcome(key, redis)),
                   raised |-> RedisErrorLeaves(redis_available, MlcRedisOutcome(key, redis))]
    /\ UNCHANGED <<l3_redis, redis_available>>

\* MultiLevelCache.get(key), the whole call with its promotions.
MlcGet(key, redis) ==
    LET r == MlcGetResult(key, redis)
        l1n == CASE r.tier = "l1" -> LruTouch(l1_cache, key)
                 [] r.tier \in {"l2", "l3"} -> LruSet(l1_cache, key, r.ret, memory_cache_size)
                 [] OTHER -> l1_cache
        l2n == CASE r.tier = "l2" -> LruTouch(l2_cache, key)
                 [] r.tier = "l3" -> TtlSet(l2_cache, key, r.ret, memory_cache_size * 2)
                 [] OTHER -> l2_cache
    IN
    /\ l1_cache' = l1n
    /\ l2_cache' = l2n
    /\ hit_stats' = [hit_stats EXCEPT ![r.tier] = @ + 1]
    /\ lastSet' = Track(lastSet, l1n, l2n)
    /\ mlcCall' = [op |-> "get", key |-> key, ret |-> r.ret, tier |-> r.tier,
                   pre |-> PreOf(key),
                   down |-> RedisDown(redis_available, MlcRedisOutcome(key, redis)),
                   raised |-> RedisErrorLeaves(redis_available, MlcRedisOutcome(key, redis))]
    /\ UNCHANGED <<l3_redis, redis_available>>

\* MultiLevelCache.set(key, value, ttl), the whole call.
MlcSet(key, value, ttl, redis) ==
    LET l1n == LruSet(l1_cache, key, value, memory_cache_size)
        l2n == TtlSet(l2_cache, key, value, memory_cache_size * 2)
        ttl_eff == IF ttl # 0 THEN ttl ELSE redis_cache_ttl
        ls == Put(lastSet, key, [value |-> value, left |-> ttl_eff, status |-> "held"])
    IN
    /\ l1_cache' = l1n
    /\ l2_cache' = l2n
    /\ l3_redis' = IF redis_available /\ redis = "ok"
                   THEN Put(l3_redis, key, [text |-> json_dumps(value), left |-> ttl_eff])
                   ELSE l3_redis
    /\ lastSet' = Track(ls, l1n, l2n)
    /\ mlcCall' = [OtherCall("set") EXCEPT !.key = key,
                                           !.down = RedisDown(redis_available, redis),
                                           !.raised = RedisErrorLeaves(redis_available, redis)]
    /\ UNCHANGED <<hit_stats, redis_available>>

\* MultiLevelCache.delete(key), the whole call.
MlcDelete(key, redis) ==
    LET l1n == Without(l1_cache, key)
        l2n == Without(l2_cache, key)
        ls == Drop(lastSet, key)
    IN
    /\ l1_cache' = l1n
    /\ l2_cache' = l2n
    /\ l3_redis' = IF redis_available /\ redis = "ok" THEN Drop(l3_redis, key) ELSE l3_redis
    /\ lastSet' = Track(ls, l1n, l2n)
    /\ mlcCall' = [OtherCall("delete") EXCEPT
                       !.raised = RedisErrorLeaves(redis_available, redis)]
    /\ UNCHANGED <<hit_stats, redis_available>>

\* Number of get calls explored (hit_stats counts every get).
MaxGets == 2

MlcGetStep ==
    /\ hit_stats["l1"] + hit_stats["l2"] + hit_stats["l3"] + hit_stats["miss"] < MaxGets
    /\ \E key \in Keys, redis \in RedisOutcomes : MlcGet(key, redis)
    /\ UNCHANGED othersMlc

MlcSetStep ==
    /\ \E key \in Keys, value \in SetValues, ttl \in TtlArgs, redis \in RedisOutcomes :
           MlcSet(key, value, ttl, redis)
    /\ UNCHANGED othersMlc

MlcDeleteStep ==
    /\ \E key \in Keys, redis \in RedisOutcomes : MlcDelete(key, redis)
    /\ UNCHANGED othersMlc

\* One second passes between calls: TTLCache entries and Redis keys whose
\* time is up disappear, and the time left of each set's ttl shrinks.
MlcTick ==
    LET l2n == AgeSeq(l2_cache)
        ls == [k \in DOMAIN lastSet |->
                  [lastSet[k] EXCEPT !.left = IF @ > 0 THEN @ - 1 ELSE 0]]
    IN
    /\ l2_cache' = l2n
    /\ l3_redis' = AgeMap(l3_redis)
    /\ lastSet' = Track(ls, l1_cache, l2n)
    /\ mlcCall' = OtherCall("tick")
    /\ UNCHANGED <<l1_cache, redis_available, hit_stats, othersMlc>>

\* MultiLevelCache.__init__: empty tiers; Redis configured or not.
InitMlc ==
    /\ l1_cache = << >>
    /\ l2_cache = << >>
    /\ l3_redis = << >>
    /\ redis_available \in (IF component = "mlc" THEN BOOLEAN ELSE {TRUE})
    /\ hit_stats = [l1 |-> 0, l2 |-> 0, l3 |-> 0, miss |-> 0]
    /\ lastSet = << >>
    /\ mlcCall = OtherCall("init")

NextMlc == MlcGetStep \/ MlcSetStep \/ MlcDeleteStep \/ MlcTick

\* ------------------------------------------------------------------------
\* performance_optimization.py: ConcurrentAPIProcessor.fetch_multiple_endpoints
\* ------------------------------------------------------------------------
\* Length of requests_config.
NumConfigs == 2
Configs == 1..NumConfigs

\* perf_config.request_timeout_seconds = 30 in the source; scaled.
request_timeout_seconds == 2

\* What a submitted _make_request can end as: the response dict, the dict
\* of its except clause (success False), or an exception (a config without
\* 'url' raises KeyError again inside the except clause).
RequestOutcomes == {"ok", "failed", "raised"}

\* The element `results` receives for a finished future: future.result(),
\* or the dict built from the exception, which names no url.
ResultOf(c, outcome) ==
    CASE outcome = "ok" -> [success |-> TRUE, url |-> c]
      [] outcome = "failed" -> [success |-> FALSE, url |-> c]
      [] OTHER -> [success |-> FALSE, url |-> 0]

\* The submit loop: executor.submit(self._make_request, config) per config.
FanSubmit ==
    /\ fanPc = "start"
    /\ futures' = [c \in Configs |-> [state |-> "running", yielded |-> FALSE]]
    /\ fanPc' = "collect"
    /\ UNCHANGED <<results, now, othersFan>>

\* A worker thread finishes _make_request for one config.
FanRequestDone ==
    /\ fanPc = "collect"
    /\ \E c \in Configs, outcome \in RequestOutcomes :
          /\ futures[c].state = "running"
          /\ futures' = [futures EXCEPT ![c].state = outcome]
    /\ UNCHANGED <<results, fanPc, now, othersFan>>

\* One iteration of `for future in as_completed(futures, timeout=...)`:
\* as_completed yields a finished future and the body appends its result.
FanCollect ==
    /\ fanPc = "collect"
    /\ \E c \in Configs :
          /\ futures[c].state # "running"
          /\ ~futures[c].yielded
          /\ futures' = [futures EXCEPT ![c].yielded = TRUE]
          /\ results' = Append(results, ResultOf(c, futures[c].state))
    /\ UNCHANGED <<fanPc, now, othersFan>>

\* as_completed finds futures still pending when the timeout has run out
\* and raises TimeoutError in the `for` statement, outside the try of its
\* body: the exception leaves fetch_multiple_endpoints (after the `with`
\* block has waited for the workers) and `results` is dropped.
FanTimeout ==
    /\ fanPc = "collect"
    /\ now >= request_timeout_seconds
    /\ \E c \in Configs : futures[c].state = "running"
    /\ fanPc' = "raised"
    /\ futures' = [c \in Configs |->
                      IF futures[c].state = "running"
                      THEN [futures[c] EXCEPT !.state = "abandoned"]
                      ELSE futures[c]]
    /\ UNCHANGED <<results, now, othersFan>>

\* as_completed is exhausted: return results.
FanReturn ==
    /\ fanPc = "collect"
    /\ \A c \in Configs : futures[c].yielded
    /\ fanPc' = "returned"
    /\ UNCHANGED <<futures, results, now, othersFan>>

\* Time passes while the requests run (start_time is 0).
FanTick ==
    /\ fanPc = "collect"
    /\ now < MaxTime
    /\ now' = now + 1
    /\ UNCHANGED <<fanVars, othersFan>>

\* fetch_multiple_endpoints has just been called.
InitFan ==
    /\ futures = << >>
    /\ results = << >>
    /\ fanPc = "start"

NextFan == FanSubmit \/ FanRequestDone \/ FanCollect \/ FanTimeout \/ FanReturn \/ FanTick

\* ------------------------------------------------------------------------
\* crypto_server_ultimate.py: UltimateCacheManager
\* ------------------------------------------------------------------------
\* memory_ttl = 60 and redis_ttl = CACHE_TTL = 300 in the source; scaled,
\* keeping their order.
memory_ttl == 2
CACHE_TTL == 3

\* _is_memory_cache_valid(key)
is_memory_cache_valid(key) ==
    /\ key \in DOMAIN memory_cache_timestamps
    /\ (now - memory_cache_timestamps[key]) < memory_ttl

\* What ucmCall records for a step that is not a call of get or set.
UcmOther(op) == [op |-> op, key |-> None, ret |-> None, tier |-> "none",
                 inMemory |-> FALSE, inRedis |-> FALSE,
                 data |-> None, down |-> FALSE, raised |-> FALSE]

\* UltimateCacheManager.get(cache_key): the tier that answers and the value.
UcmGetResult(key, redis) ==
    IF key \in DOMAIN memory_cache /\ is_memory_cache_valid(key)
    THEN [tier |-> "memory", ret |-> memory_cache[key]]
    ELSE IF REDIS_AVAILABLE /\ redis = "ok" /\ key \in DOMAIN ucm_redis
    THEN [tier |-> "redis", ret |-> json_loads(ucm_redis[key].text)]
    ELSE [tier |-> "miss", ret |-> None]

\* UltimateCacheManager.get(cache_key), the whole call.
UcmGet(key, redis) ==
    LET r == UcmGetResult(key, redis)
        inMemory == key \in DOMAIN memory_cache /\ is_memory_cache_valid(key)
        s1 == [stats EXCEPT !.total_requests = @ + 1]
        s2 == CASE r.tier = "memory" -> [s1 EXCEPT !.memory_hits = @ + 1]
                [] r.tier = "redis" -> [s1 EXCEPT !.redis_hits = @ + 1]
                [] r.tier = "miss" /\ REDIS_AVAILABLE /\ redis = "ok" ->
                       [s1 EXCEPT !.redis_misses = @ + 1, !.memory_misses = @ + 1]
                [] OTHER -> [s1 EXCEPT !.memory_misses = @ + 1]
    IN
    /\ stats' = s2
    /\ IF r.tier = "redis"
       THEN /\ memory_cache' = Put(memory_cache, key, r.ret)
            /\ memory_cache_timestamps' = Put(memory_cache_timestamps, key, now)
       ELSE UNCHANGED <<memory_cache, memory_cache_timestamps>>
    /\ ucmCall' = [op |-> "get", key |-> key, ret |-> r.ret, tier |-> r.tier,
                   inMemory |-> inMemory, inRedis |-> key \in DOMAIN ucm_redis,
                   data |-> None,
                   down |-> RedisDown(REDIS_AVAILABLE, IF inMemory THEN "ok" ELSE redis),
                   raised |-> RedisErrorLeaves(REDIS_AVAILABLE,
                                               IF inMemory THEN "ok" ELSE redis)]
    /\ UNCHANGED <<ucm_redis, REDIS_AVAILABLE>>

\* UltimateCacheManager.set(cache_key, data, ttl), the whole call.
UcmSet(key, data, ttl, redis) ==
    LET cache_ttl == IF ttl # 0 THEN ttl ELSE CACHE_TTL
    IN
    /\ memory_cache' = Put(memory_cache, key, data)
    /\ memory_cache_timestamps' = Put(memory_cache_timestamps, key, now)
    /\ ucm_redis' = IF REDIS_AVAILABLE /\ redis = "ok"
                    THEN Put(ucm_redis, key, [text |-> json_dumps(data), left |-> cache_ttl])
                    ELSE ucm_redis
    /\ ucmCall' = [op |-> "set", key |-> key, ret |-> None, tier |-> "none",
                   inMemory |-> FALSE, inRedis |-> FALSE,
                   data |-> data, down |-> RedisDown(REDIS_AVAILABLE, redis),
                   raised |-> RedisErrorLeaves(REDIS_AVAILABLE, redis)]
    /\ UNCHANGED <<stats, REDIS_AVAILABLE>>

\* fetch_enhanced_data(endpoint, params), the whole call; key is the
\* cache_key it computes and data what generate_ultimate_analysis_data
\* returns (a dict).
fetch_enhanced_data(key, data) ==
    IF key \in DOMAIN memory_cache /\ is_memory_cache_valid(key)
    THEN /\ stats' = [stats EXCEPT !.memory_hits = @ + 1]
         /\ ucmCall' = [UcmOther("fetch_enhanced") EXCEPT
                            !.key = key, !.ret = memory_cache[key], !.tier = "memory"]
         /\ UNCHANGED <<memory_cache, memory_cache_timestamps, ucm_redis, REDIS_AVAILABLE>>
    ELSE /\ memory_cache' = Put(memory_cache, key, data)
         /\ memory_cache_timestamps' = Put(memory_cache_timestamps, key, now)
         /\ ucmCall' = [UcmOther("fetch_enhanced") EXCEPT
                            !.key = key, !.ret = data, !.tier = "computed"]
         /\ UNCHANGED <<stats, ucm_redis, REDIS_AVAILABLE>>

\* Number of UltimateCacheManager.get calls explored (stats counts them).
MaxRequests == 2

UcmGetStep ==
    /\ stats.total_requests < MaxRequests
    /\ \E key \in Keys, redis \in RedisOutcomes : UcmGet(key, redis)
    /\ UNCHANGED <<now, othersUcm>>

UcmSetStep ==
    /\ \E key \in Keys, data \in SetValues, ttl \in TtlArgs, redis \in RedisOutcomes :
           UcmSet(key, data, ttl, redis)
    /\ UNCHANGED <<now, othersUcm>>

FetchEnhancedStep ==
    /\ stats.memory_hits < MaxRequests
    /\ \E key \in Keys : fetch_enhanced_data(key, "dict1")
    /\ UNCHANGED <<now, othersUcm>>

\* One second passes between calls; Redis drops the keys whose time is up.
UcmTick ==
    /\ now < MaxTime
    /\ now' = now + 1
    /\ ucm_redis' = AgeMap(ucm_redis)
    /\ ucmCall' = UcmOther("tick")
    /\ UNCHANGED <<memory_cache, memory_cache_timestamps, REDIS_AVAILABLE, stats, othersUcm>>

\* UltimateCacheManager.__init__; Redis reachable at start-up or not.
InitUcm ==
    /\ memory_cache = << >>
    /\ memory_cache_timestamps = << >>
    /\ ucm_redis = << >>
    /\ REDIS_AVAILABLE \in (IF component \in {"ucm", "enh"} THEN BOOLEAN ELSE {TRUE})
    /\ stats = [memory_hits |-> 0, memory_misses |-> 0, redis_hits |-> 0,
                redis_misses |-> 0, total_requests |-> 0]
    /\ ucmCall = UcmOther("init")

NextUcm == UcmGetStep \/ UcmSetStep \/ UcmTick

\* The analysis endpoints: fetch_enhanced_data on the cache manager that
\* set also writes.
NextEnh == FetchEnhancedStep \/ UcmSetStep \/ UcmTick

\* ------------------------------------------------------------------------
\* crypto_server_ultimate.py: UltimateCacheManager._generate_cache_key
\* ------------------------------------------------------------------------
\* The prefix argument (an endpoint name).
Prefixes == {"markets", "tvl"}
\* Parameter names, in the order sort_keys puts them (string comparison).
ParamNames == <<"ids", "vs_currency">>
ParamValues == {"x", "y"}
\* Largest params dict, and calls of _generate_cache_key followed.
MaxParams == 2
MaxKeyCalls == 2

Rank(name) == CHOOSE i \in 1..Len(ParamNames) : ParamNames[i] = name

\* A dict in its insertion order: a sequence of (name, value) items with
\* distinct names.
ParamDicts ==
    { d \in UNION { [1..n -> [k : {ParamNames[i] : i \in 1..Len(ParamNames)}, v : ParamValues]]
                    : n \in 0..MaxParams } :
        \A i, j \in 1..Len(d) : i # j => d[i].k # d[j].k }

\* json.dumps(params) without sort_keys: the items in insertion order.
dumps_sort_keys_Unsorted(params) == params

\* json.dumps(params, sort_keys=True): the items in the order of their names.
dumps_sort_keys(params) ==
    [i \in 1..Len(params) |->
        params[CHOOSE j \in 1..Len(params) :
                  Cardinality({m \in 1..Len(params) : Rank(params[m].k) < Rank(params[j].k)})
                      = i - 1]]

\* hashlib.md5(text.encode()).hexdigest(): a value fixed by the text.
md5_hexdigest(text) == <<"md5", text>>

\* _generate_cache_key(prefix, params)
generate_cache_key(prefix, params) ==
    LET key_data == <<prefix, ":", dumps_sort_keys(params)>>
    IN md5_hexdigest(key_data)

GenerateKeyStep ==
    /\ Len(keyLog) < MaxKeyCalls
    /\ \E prefix \in Prefixes, params \in ParamDicts :
          keyLog' = Append(keyLog, [prefix |-> prefix, params |-> params,
                                    key |-> generate_cache_key(prefix, params)])
    /\ UNCHANGED othersKey

InitKey == keyLog = << >>

NextKey == GenerateKeyStep

\* ------------------------------------------------------------------------
\* superclaude_masterful_backend.py: SuperClaudeAPIClient.fetch_coingecko_data,
\* fetch_defillama_data and fetch_velo_data
\* ------------------------------------------------------------------------
\* SystemConfig.CACHE_TTL = 300 in the source; scaled.
config_CACHE_TTL == 2

\* Calls of fetch_* followed.
MaxFetches == 3

\* The endpoint argument, and the params argument: one dict written in its
\* two insertion orders.
ScEndpoints == {"markets"}
ScParams ==
    { <<[k |-> "ids", v |-> "x"], [k |-> "vs_currency", v |-> "y"]>>,
      <<[k |-> "vs_currency", v |-> "y"], [k |-> "ids", v |-> "x"]>> }

\* str(params): the items in insertion order.
py_str(params) == <<"str", params>>

\* hash(text): a value fixed by the text for the life of the process.
py_hash(text) == <<"hash", text>>

\* cache_key = f"coingecko_{endpoint}_{hash(str(params))}" (defillama_, velo_)
sc_cache_key(source, endpoint, params) == <<source, endpoint, py_hash(py_str(params))>>

\* The entry is there and younger than CACHE_TTL.
ScFresh(key) ==
    /\ key \in DOMAIN sc_cache
    /\ now - sc_cache[key].time < config_CACHE_TTL

\* What session.get and the parsing after it can do: a 200 answer, another
\* status, or an exception.
ScOutcomes == {"200", "500", "exception"}

\* PerformanceMonitor.record_request(response_time, success)
\* A monitor that counts failed requests in request_count only.
record_request_NoFailed(m, success) ==
    IF success
    THEN [m EXCEPT !.request_count = @ + 1, !.successful_requests = @ + 1]
    ELSE [m EXCEPT !.request_count = @ + 1]

record_request(m, success) ==
    IF success
    THEN [m EXCEPT !.request_count = @ + 1, !.successful_requests = @ + 1]
    ELSE [m EXCEPT !.request_count = @ + 1, !.failed_requests = @ + 1]

\* The `result` / `error_result` dict; its timestamp is the time of the call.
ScResult(source, endpoint, outcome) ==
    [success |-> outcome = "200", source |-> source, endpoint |-> endpoint,
     error |-> IF outcome = "200" THEN None ELSE outcome, timestamp |-> now]

\* A fetch that goes to the network whatever the cache holds.
fetch_data_NoCacheCheck(source, endpoint, params, outcome) ==
    LET key == sc_cache_key(source, endpoint, params)
        res == ScResult(source, endpoint, outcome)
        m == [metrics EXCEPT !.cache_misses = @ + 1]
    IN
    /\ sc_cache' = IF outcome = "200"
                   THEN Put(sc_cache, key, [result |-> res, time |-> now])
                   ELSE sc_cache
    /\ metrics' = record_request(m, outcome = "200")
    /\ scCall' = [op |-> "fetch", key |-> key, requested |-> TRUE, ret |-> res]

\* fetch_coingecko_data / fetch_defillama_data / fetch_velo_data(endpoint,
\* params), the whole call; the three differ in url, headers and key prefix.
fetch_data(source, endpoint, params, outcome) ==
    LET key == sc_cache_key(source, endpoint, params)
        res == ScResult(source, endpoint, outcome)
        m == [metrics EXCEPT !.cache_misses = @ + 1]
    IN
    IF ScFresh(key)
    THEN /\ metrics' = [metrics EXCEPT !.cache_hits = @ + 1]
         /\ scCall' = [op |-> "fetch", key |-> key, requested |-> FALSE,
                       ret |-> sc_cache[key].result]
         /\ UNCHANGED sc_cache
    ELSE /\ sc_cache' = IF outcome = "200"
                        THEN Put(sc_cache, key, [result |-> res, time |-> now])
                        ELSE sc_cache
         /\ metrics' = record_request(m, outcome = "200")
         /\ scCall' = [op |-> "fetch", key |-> key, requested |-> TRUE, ret |-> res]

ScFetch(source, endpoint, params, outcome) ==
    /\ scFetches < MaxFetches
    /\ fetch_data(source, endpoint, params, outcome)
    /\ scFetches' = scFetches + 1
    /\ UNCHANGED <<now, othersSc>>

FetchCoingeckoStep ==
    \E endpoint \in ScEndpoints, params \in ScParams, outcome \in ScOutcomes :
        ScFetch("coingecko", endpoint, params, outcome)

FetchDefillamaStep ==
    \E endpoint \in ScEndpoints, params \in ScParams, outcome \in ScOutcomes :
        ScFetch("defillama", endpoint, params, outcome)

FetchVeloStep ==
    \E endpoint \in ScEndpoints, params \in ScParams, outcome \in ScOutcomes :
        ScFetch("velo", endpoint, params, outcome)

ScNoCall == [op |-> "none", key |-> << >>, requested |-> FALSE,
             ret |-> ScResult(None, None, "none")]

ScTick ==
    /\ now < MaxTime
    /\ now' = now + 1
    /\ scCall' = [ScNoCall EXCEPT !.op = "tick", !.ret.timestamp = 0]
    /\ UNCHANGED <<sc_cache, metrics, scFetches, othersSc>>

\* SuperClaudeAPIClient.__init__ and PerformanceMonitor.__init__
InitSc ==
    /\ sc_cache = << >>
    /\ metrics = [request_count |-> 0, successful_requests |-> 0, failed_requests |-> 0,
                  cache_hits |-> 0, cache_misses |-> 0]
    /\ scCall = ScNoCall
    /\ scFetches = 0

NextSc == FetchCoingeckoStep \/ FetchDefillamaStep \/ FetchVeloStep \/ ScTick

\* ------------------------------------------------------------------------
\* The retrying fetchers: enhanced_crypto_data_fetcher.fetch_with_retries,
\* ResilientHTTPClient.get, CryptoAnalysisSuite.fetch_with_retries and
\* defillama_fetcher.fetch_defillama / fetch_coingecko
\* ------------------------------------------------------------------------
\* requests.get either raises (connection error, timeout) or yields a status.
ConnError == 0
Responses == {ConnError, 200, 404, 429, 503}

\* Response.raise_for_status() raises HTTPError for 4xx and 5xx.
RaisesForStatus(status) == status >= 400 /\ status < 600

\* Requests explored per fetch; fetch_defillama's max_requests=100 is cut here.
MaxAttempts == 6

\* The calls explored: function, number of attempts, base delay in ms.
\* "enhanced" with (5, 500) and "resilient" with (3, 1500) are the defaults,
\* and each of the three is also called with a single attempt;
\* "suite" waits 2 ** attempt seconds; "defillama" is fetch_defillama
\* (delay=1.0), whose loop fetch_coingecko repeats with delay=0.5.
RetryCalls ==
    { [fn |-> "enhanced", max |-> 5, delay |-> 10],
      [fn |-> "enhanced", max |-> 5, delay |-> 500],
      [fn |-> "resilient", max |-> 5, delay |-> 10],
      [fn |-> "resilient", max |-> 3, delay |-> 1500],
      [fn |-> "suite", max |-> 3, delay |-> 1000],
      [fn |-> "enhanced", max |-> 1, delay |-> 500],
      [fn |-> "resilient", max |-> 1, delay |-> 1500],
      [fn |-> "suite", max |-> 1, delay |-> 1000],
      [fn |-> "defillama", max |-> 100, delay |-> 1000],
      [fn |-> "defillama", max |-> 100, delay |-> 500] }

\* A backoff that grows linearly with the attempt number.
Backoff_Linear(base, a) == base * (a + 1)

\* base * (2 ** attempt)
Backoff(base, a) == base * (2 ^ a)

\* The exception a failed request leaves in `e`.
ErrorOf(resp) == IF resp = ConnError THEN "ConnectionError" ELSE "HTTPError"

\* A loop that takes one iteration more than range(max) has.
IsLast_OneMore == attempt >= rCall.max

\* The loop is over after this iteration.
IsLast == attempt + 1 >= rCall.max

\* One iteration of a loop that goes on to the next attempt, or falls out of
\* the loop with `final` when this was the last one.
Continue(slept, final) ==
    /\ sleeps' = sleeps \o slept
    /\ attempt' = attempt + 1
    /\ IF IsLast
       THEN pc' = "done" /\ result' = final
       ELSE pc' = "loop" /\ result' = result

\* The function returns or raises inside the loop.
Finish(r) ==
    /\ pc' = "done"
    /\ result' = r
    /\ UNCHANGED <<attempt, sleeps>>

\* enhanced_crypto_data_fetcher.fetch_with_retries: one loop iteration.
EnhancedIteration(resp) ==
    IF resp = 200 THEN Finish("ok")
    ELSE IF resp = 429
    THEN Continue(<<Backoff(rCall.delay, attempt)>>, "RuntimeError")
    ELSE IF resp = ConnError \/ RaisesForStatus(resp)
    THEN IF attempt < rCall.max - 1
         THEN Continue(<<Backoff(rCall.delay, attempt)>>, "RuntimeError")
         ELSE Finish(ErrorOf(resp))
    ELSE Continue(<< >>, "RuntimeError")

\* ResilientHTTPClient.get: one loop iteration.
ResilientIteration(resp) ==
    IF resp = 429
    THEN Continue(<<Backoff(rCall.delay, attempt)>>, "Exception")
    ELSE IF resp = ConnError \/ RaisesForStatus(resp)
    THEN Continue(IF attempt < rCall.max - 1 THEN <<Backoff(rCall.delay, attempt)>> ELSE << >>,
                  "Exception")
    ELSE Finish("ok")

\* CryptoAnalysisSuite.fetch_with_retries: one loop iteration.
SuiteIteration(resp) ==
    IF resp = 200 THEN Finish("ok")
    ELSE IF resp = 429
    THEN Continue(<<Backoff(rCall.delay, attempt)>>, None)
    ELSE IF resp = ConnError \/ RaisesForStatus(resp)
    THEN Continue(IF attempt < rCall.max - 1 THEN <<Backoff(rCall.delay, attempt)>> ELSE << >>,
                  None)
    ELSE Continue(<< >>, None)

\* defillama_fetcher.fetch_defillama / fetch_coingecko: one loop iteration.
DefillamaIteration(resp) ==
    IF resp = ConnError THEN Finish("ConnectionError")
    ELSE IF resp = 200 THEN Finish("ok")
    ELSE IF resp = 429
    THEN Continue(<<Backoff(rCall.delay, attempt), rCall.delay>>, "RuntimeError")
    ELSE IF RaisesForStatus(resp) THEN Finish("HTTPError")
    ELSE Continue(<<rCall.delay>>, "RuntimeError")

\* One request of the running fetch and everything up to the next request.
RetryStep(fn, resp) ==
    /\ pc = "loop"
    /\ rCall.fn = fn
    /\ attempt < rCall.max
    /\ Len(responses) < MaxAttempts
    /\ responses' = Append(responses, resp)
    /\ CASE fn = "enhanced" -> EnhancedIteration(resp)
         [] fn = "resilient" -> ResilientIteration(resp)
         [] fn = "suite" -> SuiteIteration(resp)
         [] fn = "defillama" -> DefillamaIteration(resp)
    /\ UNCHANGED <<rCall, othersRetry>>

EnhancedFetchStep == \E resp \in Responses : RetryStep("enhanced", resp)
ResilientGetStep == \E resp \in Responses : RetryStep("resilient", resp)
SuiteFetchStep == \E resp \in Responses : RetryStep("suite", resp)
DefillamaFetchStep == \E resp \in Responses : RetryStep("defillama", resp)

\* A fetch has just been called.
InitRetry ==
    /\ rCall \in (IF component = "retry" THEN RetryCalls
                  ELSE {[fn |-> "enhanced", max |-> 5, delay |-> 10]})
    /\ attempt = 0
    /\ pc = "loop"
    /\ responses = << >>
    /\ sleeps = << >>
    /\ result = "running"

NextRetry == EnhancedFetchStep \/ ResilientGetStep \/ SuiteFetchStep \/ DefillamaFetchStep

\* ------------------------------------------------------------------------
\* security_framework.py: RateLimiter
\* ------------------------------------------------------------------------
\* self.windows["minute"] = 60 in the source; scaled.
window_seconds == 2

Identifiers == {"a", "b"}
\* The limit argument (security_config.api_rate_limit_per_minute = 100).
Limits == {1, 2}
\* Calls explored per counter.
MaxCount == 4

\* pipe.execute() returns, or raises before the transaction ran, or raises
\* after it ran (the reply was lost).
RlOutcomes == {"ok", "raise_before", "raise_after"}

\* A check that already rejects the call that reaches the limit.
RlLimited_AtLimit(current_count, limit) == current_count >= limit

\* if current_count > limit: return True, info
RlLimited(current_count, limit) == current_count > limit

\* A limiter that rejects when the store raises.
RlOnError_FailClosed == TRUE

\* except Exception: ... return False, {"error": "rate_limiter_unavailable"}
RlOnError == FALSE

\* pipe.incr(key); pipe.expire(key, window_seconds)
RlIncrExpire(keys, id) ==
    Put(keys, id, [count |-> (IF id \in DOMAIN keys THEN keys[id].count ELSE 0) + 1,
                   left |-> window_seconds])

\* The history after a call: the n-th call since the counter was opened.
RlRecord(id, outcome) ==
    IF id \in DOMAIN rlHist
    THEN [rlHist EXCEPT ![id].calls = @ + 1,
                        ![id].healthy = @ /\ outcome = "ok"]
    ELSE Put(rlHist, id, [calls |-> 1, age |-> 0, healthy |-> outcome = "ok"])

\* RateLimiter.is_rate_limited(identifier, limit, "minute"), the whole call.
is_rate_limited(id, limit, outcome) ==
    LET keys == IF outcome = "raise_before" THEN rl_keys ELSE RlIncrExpire(rl_keys, id)
    IN
    /\ rl_keys' = keys
    /\ rlHist' = RlRecord(id, outcome)
    /\ rlCall' = [op |-> "check", id |-> id, limit |-> limit, error |-> outcome # "ok",
                  limited |-> IF outcome = "ok"
                              THEN RlLimited(keys[id].count, limit)
                              ELSE RlOnError]

RlCheckStep ==
    /\ \E id \in Identifiers, limit \in Limits, outcome \in RlOutcomes :
          /\ id \in DOMAIN rl_keys => rl_keys[id].count < MaxCount
          /\ id \in DOMAIN rlHist => rlHist[id].calls < MaxCount
          /\ is_rate_limited(id, limit, outcome)
    /\ UNCHANGED othersRl

\* RateLimiter.reset_rate_limit(identifier, "minute")
RlResetStep ==
    /\ \E id \in Identifiers :
          /\ rl_keys' = Drop(rl_keys, id)
          /\ rlHist' = Drop(rlHist, id)
          /\ rlCall' = [op |-> "reset", id |-> id, limit |-> 0, error |-> FALSE, limited |-> FALSE]
    /\ UNCHANGED othersRl

\* One second passes: Redis drops the counters whose EXPIRE time is up.  The
\* age of a counter is followed up to window_seconds + 1, "more than a window".
RlTick ==
    LET keys == AgeMap(rl_keys) IN
    /\ rl_keys' = keys
    /\ rlHist' = [id \in DOMAIN rlHist \cap DOMAIN keys |->
                     [rlHist[id] EXCEPT !.age = IF @ <= window_seconds THEN @ + 1 ELSE @]]
    /\ rlCall' = [op |-> "tick", id |-> None, limit |-> 0, error |-> FALSE, limited |-> FALSE]
    /\ UNCHANGED othersRl

\* RateLimiter.__init__ against an empty keyspace.
InitRl ==
    /\ rl_keys = << >>
    /\ rlHist = << >>
    /\ rlCall = [op |-> "init", id |-> None, limit |-> 0, error |-> FALSE, limited |-> FALSE]

NextRl == RlCheckStep \/ RlResetStep \/ RlTick

\* ------------------------------------------------------------------------
\* crypto_server_ultimate.py: UltimateHTTPClient.get under
\* @circuit(failure_threshold=5, recovery_timeout=30, expected_exception=Exception)
\* ------------------------------------------------------------------------
failure_threshold == 5
\* recovery_timeout = 30 in the source; scaled.
recovery_timeout == 2

Services == {"coingecko", "defillama"}

\* What session.get and the code after it can do: a 200 with a JSON body, a
\* 429, another status, a requests RequestException, or an exception that is
\* not a RequestException (response.json() on a 200 whose body is not JSON,
\* where JSONDecodeError is a plain ValueError).
HttpOutcomes == {"200", "429", "500", "RequestException", "ValueError"}

\* What the body of get does with each: only the last one leaves get as an
\* exception; every other failure is logged and turned into `return None`.
GetBody(outcome) ==
    CASE outcome = "200" -> [raises |-> FALSE, ret |-> "json"]
      [] outcome \in {"429", "500", "RequestException"} -> [raises |-> FALSE, ret |-> None]
      [] OTHER -> [raises |-> TRUE, ret |-> None]

\* CircuitBreaker.state: an open breaker is half-open once recovery_timeout
\* has passed since it opened.
BreakerState ==
    IF breaker.state = "open" /\ now - breaker.opened >= recovery_timeout
    THEN "half_open"
    ELSE breaker.state

\* CircuitBreaker.__exit__: an exception counts a failure and opens the
\* breaker at the threshold; a normal return closes it and clears the count.
BreakerAfter(raised) ==
    IF raised
    THEN LET n == breaker.failure_count + 1 IN
         IF n >= failure_threshold
         THEN [state |-> "open", failure_count |-> n, opened |-> now]
         ELSE [breaker EXCEPT !.failure_count = n]
    ELSE [breaker EXCEPT !.state = "closed", !.failure_count = 0]

\* Calls in a row explored.
MaxConsec == 6

\* UltimateHTTPClient.get(service, url, params) through the decorator.
HttpGet(service, outcome) ==
    IF BreakerState = "open"
    THEN /\ cbCall' = [op |-> "get", service |-> service, requested |-> FALSE,
                       rejected |-> TRUE, ret |-> "CircuitBreakerError",
                       failuresBefore |-> consecFailures, stateBefore |-> BreakerState]
         /\ UNCHANGED <<breaker, consecFailures, svcFailures>>
    ELSE LET r == GetBody(outcome) IN
         /\ breaker' = BreakerAfter(r.raises)
         /\ svcFailures' = [svcFailures EXCEPT ![service] =
                               IF ~r.raises THEN 0
                               ELSE IF @ < failure_threshold THEN @ + 1 ELSE @]
         /\ consecFailures' = IF outcome \in {"200", "ValueError"} THEN 0 ELSE consecFailures + 1
         /\ cbCall' = [op |-> "get", service |-> service, requested |-> TRUE,
                       rejected |-> FALSE, ret |-> IF r.raises THEN outcome ELSE r.ret,
                       failuresBefore |-> consecFailures, stateBefore |-> BreakerState]

HttpGetStep ==
    /\ consecFailures < MaxConsec
    /\ breaker.failure_count < MaxConsec
    /\ \E service \in Services, outcome \in HttpOutcomes : HttpGet(service, outcome)
    /\ UNCHANGED <<now, othersCb>>

CbTick ==
    /\ now < MaxTime
    /\ now' = now + 1
    /\ cbCall' = [op |-> "tick", service |-> None, requested |-> FALSE, rejected |-> FALSE,
                  ret |-> None, failuresBefore |-> 0, stateBefore |-> "none"]
    /\ UNCHANGED <<breaker, consecFailures, svcFailures, othersCb>>

\* The breaker the decorator creates at import: closed, no failures.
InitCb ==
    /\ breaker = [state |-> "closed", failure_count |-> 0, opened |-> 0]
    /\ consecFailures = 0
    /\ svcFailures = [s \in Services |-> 0]
    /\ cbCall = [op |-> "init", service |-> None, requested |-> FALSE, rejected |-> FALSE,
                 ret |-> None, failuresBefore |-> 0, stateBefore |-> "none"]

NextCb == HttpGetStep \/ CbTick

NoCall == [key |-> None, path |-> "none", fetched |-> FALSE, hadEntry |-> FALSE,
           prior |-> None, ret |-> [tag |-> "none", data |-> None, stale |-> FALSE]]

InitGcf ==
    /\ cache \in (IF component = "cold" THEN ColdCaches ELSE {<< >>})
    /\ gcfCall = NoCall

\* ------------------------------------------------------------------------
\* UltimateCacheManager.invalidate_pattern next to a writer and a reader,
\* one statement at a time (crypto_server_ultimate.py: the server runs its
\* handlers on threads, and no lock guards memory_cache)
\* ------------------------------------------------------------------------
Threads == {"writer", "invalidator", "reader"}
Patterns == {"k", "k1", "k2"}

\* pattern in k, on the keys of the model
PatternIn(pattern, k) == pattern = "k" \/ pattern = k

ThreadAt(pc0, key, todo) == [pc |-> pc0, key |-> key, todo |-> todo]
ThreadIdle == ThreadAt("idle", None, {})

\* set / fetch_enhanced_data, first statement: memory_cache[cache_key] = data
WriterPutData ==
    /\ thr["writer"].pc = "idle"
    /\ \E key \in Keys :
           /\ memory_cache' = Put(memory_cache, key, "dict1")
           /\ thr' = [thr EXCEPT !["writer"] = ThreadAt("put_timestamp", key, {})]
    /\ UNCHANGED <<memory_cache_timestamps, raisedOps, othersInv>>

\* set / fetch_enhanced_data, second statement:
\* memory_cache_timestamps[cache_key] = time.time()
WriterPutTimestamp ==
    /\ thr["writer"].pc = "put_timestamp"
    /\ memory_cache_timestamps' = Put(memory_cache_timestamps, thr["writer"].key, now)
    /\ thr' = [thr EXCEPT !["writer"] = ThreadAt("done", @.key, {})]
    /\ UNCHANGED <<memory_cache, raisedOps, othersInv>>

\* invalidate_pattern: keys_to_remove = [k for k in memory_cache.keys() if pattern in k]
\* (the list is walked in the dict's order, which the model does not keep:
\* todo is the set of its keys)
InvalidateList ==
    /\ thr["invalidator"].pc = "idle"
    /\ \E pattern \in Patterns :
           LET keys_to_remove == {k \in DOMAIN memory_cache : PatternIn(pattern, k)}
           IN thr' = [thr EXCEPT !["invalidator"] =
                          IF keys_to_remove = {}
                          THEN ThreadAt("done", None, {})
                          ELSE ThreadAt("del_data", None, keys_to_remove)]
    /\ UNCHANGED <<memory_cache, memory_cache_timestamps, raisedOps, othersInv>>

\* invalidate_pattern: del self.memory_cache[key] (KeyError when key is absent)
InvalidateDelData ==
    /\ thr["invalidator"].pc = "del_data"
    /\ \E key \in thr["invalidator"].todo :
           IF key \in DOMAIN memory_cache
           THEN /\ memory_cache' = Drop(memory_cache, key)
                /\ thr' = [thr EXCEPT !["invalidator"] =
                               ThreadAt("del_timestamp", key, @.todo \ {key})]
                /\ UNCHANGED raisedOps
           ELSE /\ thr' = [thr EXCEPT !["invalidator"] = ThreadAt("raised", key, {})]
                /\ raisedOps' = raisedOps \cup {"invalidator"}
                /\ UNCHANGED memory_cache
    /\ UNCHANGED <<memory_cache_timestamps, othersInv>>

\* invalidate_pattern: del self.memory_cache_timestamps[key] (KeyError when absent)
InvalidateDelTimestamp ==
    /\ thr["invalidator"].pc = "del_timestamp"
    /\ LET t == thr["invalidator"]
       IN IF t.key \in DOMAIN memory_cache_timestamps
          THEN /\ memory_cache_timestamps' = Drop(memory_cache_timestamps, t.key)
               /\ thr' = [thr EXCEPT !["invalidator"] =
                              IF t.todo = {} THEN ThreadAt("done", None, {})
                              ELSE ThreadAt("del_data", None, t.todo)]
               /\ UNCHANGED raisedOps
          ELSE /\ thr' = [thr EXCEPT !["invalidator"] = ThreadAt("raised", t.key, {})]
               /\ raisedOps' = raisedOps \cup {"invalidator"}
               /\ UNCHANGED memory_cache_timestamps
    /\ UNCHANGED <<memory_cache, othersInv>>

\* get / fetch_enhanced_data: if cache_key in memory_cache and
\* _is_memory_cache_valid(cache_key)
ReaderCheck ==
    /\ thr["reader"].pc = "idle"
    /\ \E key \in Keys :
           thr' = [thr EXCEPT !["reader"] =
                       IF key \in DOMAIN memory_cache /\ is_memory_cache_valid(key)
                       THEN ThreadAt("return", key, {})
                       ELSE ThreadAt("done", key, {})]
    /\ UNCHANGED <<memory_cache, memory_cache_timestamps, raisedOps, othersInv>>

\* get / fetch_enhanced_data: return memory_cache[cache_key] (KeyError when absent)
ReaderReturn ==
    /\ thr["reader"].pc = "return"
    /\ IF thr["reader"].key \in DOMAIN memory_cache
       THEN /\ thr' = [thr EXCEPT !["reader"] = ThreadAt("done", @.key, {})]
            /\ UNCHANGED raisedOps
       ELSE /\ thr' = [thr EXCEPT !["reader"] = ThreadAt("raised", @.key, {})]
            /\ raisedOps' = raisedOps \cup {"reader"}
    /\ UNCHANGED <<memory_cache, memory_cache_timestamps, othersInv>>

\* every operation has returned or raised: the next requests arrive
ThreadsRestart ==
    /\ \A t \in Threads : thr[t].pc \in {"done", "raised"}
    /\ thr' = [t \in Threads |-> ThreadIdle]
    /\ UNCHANGED <<memory_cache, memory_cache_timestamps, raisedOps, othersInv>>

InitInv ==
    /\ thr = [t \in Threads |-> ThreadIdle]
    /\ raisedOps = {}

NextInv ==
    \/ WriterPutData
    \/ WriterPutTimestamp
    \/ InvalidateList
    \/ InvalidateDelData
    \/ InvalidateDelTimestamp
    \/ ReaderCheck
    \/ ReaderReturn
    \/ ThreadsRestart

\* ------------------------------------------------------------------------
\* cached_result (performance_optimization.py): a function memoised in the
\* module's MultiLevelCache
\* ------------------------------------------------------------------------
CrArgs == {"a1", "a2"}
CrResults == {None, "dict1"}

\* The default key: ":".join([func.__name__, str(arg)]), one key per argument.
default_cache_key(arg) == IF arg = "a1" THEN "k1" ELSE "k2"

\* The ttl handed to cached_result(ttl=None); 0 stands for None.
decorator_ttl == 0

\* wrapper(arg): cache.get(cache_key); a value other than None is returned,
\* otherwise func runs and its result goes through cache.set.
wrapper(arg, redisGet, redisSet) ==
    LET cache_key == default_cache_key(arg)
        r == MlcGetResult(cache_key, redisGet)
        cached_value == r.ret
        had == Has(l1_cache, cache_key)
        prior == IF had THEN Entry(l1_cache, cache_key).v ELSE None
    IN
    IF cached_value # None
    THEN /\ MlcGet(cache_key, redisGet)
         /\ crCall' = [key |-> cache_key, invoked |-> FALSE, ret |-> cached_value,
                       hadEntry |-> had, prior |-> prior]
    ELSE LET func_result == crFunc[arg]
             l1n == LruSet(l1_cache, cache_key, func_result, memory_cache_size)
             l2n == TtlSet(l2_cache, cache_key, func_result, memory_cache_size * 2)
             ttl_eff == IF decorator_ttl # 0 THEN decorator_ttl ELSE redis_cache_ttl
             ls == Put(lastSet, cache_key,
                       [value |-> func_result, left |-> ttl_eff, status |-> "held"])
         IN
         /\ hit_stats' = [hit_stats EXCEPT ![r.tier] = @ + 1]
         /\ l1_cache' = l1n
         /\ l2_cache' = l2n
         /\ l3_redis' = IF redis_available /\ redisSet = "ok"
                        THEN Put(l3_redis, cache_key,
                                 [text |-> json_dumps(func_result), left |-> ttl_eff])
                        ELSE l3_redis
         /\ lastSet' = Track(ls, l1n, l2n)
         /\ mlcCall' = [OtherCall("set") EXCEPT
                            !.key = cache_key,
                            !.down = RedisDown(redis_available, redisSet),
                            !.raised = RedisErrorLeaves(redis_available, redisSet)]
         /\ crCall' = [key |-> cache_key, invoked |-> TRUE, ret |-> func_result,
                       hadEntry |-> had, prior |-> prior]
         /\ UNCHANGED redis_available

MaxCachedCalls == 4

CachedCallStep ==
    /\ hit_stats["l1"] + hit_stats["l2"] + hit_stats["l3"] + hit_stats["miss"]
           < MaxCachedCalls
    /\ \E arg \in CrArgs, redisGet \in RedisOutcomes, redisSet \in RedisOutcomes :
           wrapper(arg, redisGet, redisSet)
    /\ UNCHANGED <<crFunc, othersCr>>

CrNoCall == [key |-> None, invoked |-> FALSE, ret |-> None,
             hadEntry |-> FALSE, prior |-> None]

InitCr ==
    /\ crFunc \in (IF component = "cr" THEN [CrArgs -> CrResults]
                   ELSE {[a \in CrArgs |-> "dict1"]})
    /\ crCall = CrNoCall

NextCr == CachedCallStep \/ MlcTick

\* ------------------------------------------------------------------------
\* Specifications: one per modelled object, and Spec running any one of them
\* ------------------------------------------------------------------------
Components == {"gcf", "mlc", "ucm", "retry", "rl", "cb", "cold", "fan", "key", "sc",
               "enh", "inv", "cr"}

InitAll ==
    /\ now = 0
    /\ InitGcf
    /\ InitMlc
    /\ InitUcm
    /\ InitRetry
    /\ InitRl
    /\ InitCb
    /\ InitCold
    /\ InitFan
    /\ InitKey
    /\ InitSc
    /\ InitInv
    /\ InitCr

Init == component \in Components /\ InitAll

NextGcf == GcfGet \/ GcfTick

Next ==
    \/ component = "gcf" /\ NextGcf
    \/ component = "mlc" /\ NextMlc
    \/ component = "ucm" /\ NextUcm
    \/ component = "retry" /\ NextRetry
    \/ component = "rl" /\ NextRl
    \/ component = "cb" /\ NextCb
    \/ component = "cold" /\ NextCold
    \/ component = "fan" /\ NextFan
    \/ component = "key" /\ NextKey
    \/ component = "sc" /\ NextSc
    \/ component = "enh" /\ NextEnh
    \/ component = "inv" /\ NextInv
    \/ component = "cr" /\ NextCr

Spec == Init /\ [][Next]_vars

InitOfGcf == component = "gcf" /\ InitAll

SpecGcf == InitOfGcf /\ [][NextGcf]_vars

InitOfMlc == component = "mlc" /\ InitAll

SpecMlc == InitOfMlc /\ [][NextMlc]_vars

InitOfUcm == component = "ucm" /\ InitAll

SpecUcm == InitOfUcm /\ [][NextUcm]_vars

InitOfRetry == component = "retry" /\ InitAll

SpecRetry == InitOfRetry /\ [][NextRetry]_vars

InitOfRl == component = "rl" /\ InitAll

SpecRl == InitOfRl /\ [][NextRl]_vars

InitOfCb == component = "cb" /\ InitAll

SpecCb == InitOfCb /\ [][NextCb]_vars

InitOfCold == component = "cold" /\ InitAll

SpecCold == InitOfCold /\ [][NextCold]_vars

\* Every thread inside get_cached_or_fetch gets to run, and fetch_function
\* returns or raises.
FairSpecCold ==
    /\ SpecCold
    /\ WF_vars(ColdCheckStep) /\ WF_vars(ColdFetchStep) /\ WF_vars(ColdStoreStep)

InitOfFan == component = "fan" /\ InitAll

SpecFan == InitOfFan /\ [][NextFan]_vars

InitOfKey == component = "key" /\ InitAll

SpecKey == InitOfKey /\ [][NextKey]_vars

InitOfSc == component = "sc" /\ InitAll

SpecSc == InitOfSc /\ [][NextSc]_vars

InitOfEnh == component = "enh" /\ InitAll

SpecEnh == InitOfEnh /\ [][NextEnh]_vars

InitOfInv == component = "inv" /\ InitAll

SpecInv == InitOfInv /\ [][NextInv]_vars

InitOfCr == component = "cr" /\ InitAll

SpecCr == InitOfCr /\ [][NextCr]_vars

\* Each request of a running fetch returns or raises, and the sleeps end.
FairSpecRetry == SpecRetry /\ WF_vars(NextRetry)

\* The two request caches, one per run.
InitOfRequestCaches == component \in {"gcf", "sc"} /\ InitAll

NextRequestCaches ==
    \/ component = "gcf" /\ NextGcf
    \/ component = "sc" /\ NextSc

SpecRequestCaches == InitOfRequestCaches /\ [][NextRequestCaches]_vars

\* The two tiered caches, one per run.
InitOfTiers == component \in {"mlc", "ucm"} /\ InitAll

NextTiers ==
    \/ component = "mlc" /\ NextMlc
    \/ component = "ucm" /\ NextUcm

SpecTiers == InitOfTiers /\ [][NextTiers]_vars

\* ------------------------------------------------------------------------
\* C1. Graceful degradation: when a key has a cached entry whose TTL has
\* expired and the fetch for it fails, get_cached_or_fetch returns the stale
\* cached value marked as stale, not an error result.
\* ------------------------------------------------------------------------
C1_StaleFallback ==
    (gcfCall.path = "failed" /\ gcfCall.hadEntry)
        => /\ gcfCall.ret.tag = "data"
           /\ gcfCall.ret.data = gcfCall.prior
           /\ gcfCall.ret.stale

\* ------------------------------------------------------------------------
\* C2 (as claimed). Cache round trip: MultiLevelCache.set(K, V) followed by
\* get(K), with no delete of K in between and before the ttl of the set has
\* elapsed, returns V.
\* ------------------------------------------------------------------------
C2_RoundTrip ==
    (/\ mlcCall.op = "get"
     /\ mlcCall.key \in DOMAIN lastSet
     /\ lastSet[mlcCall.key].left > 0)
        => mlcCall.ret = lastSet[mlcCall.key].value

\* C2 (amended). set(K, V) followed by get(K), with no delete of K in
\* between and while K has stayed in an in-process tier (L1 or L2) since the
\* set, returns V; get of a key that no tier holds returns None (a miss).
C2_RoundTripHeld ==
    mlcCall.op = "get" =>
        /\ mlcCall.pre.held => mlcCall.ret = lastSet[mlcCall.key].value
        /\ mlcCall.pre.first = "none" => (mlcCall.ret = None /\ mlcCall.tier = "miss")

\* A tuple set earlier is read back from L2 after L1 evicted its key.
C2_Witness ==
    /\ mlcCall.op = "get"
    /\ mlcCall.pre.held
    /\ mlcCall.tier = "l2"
    /\ mlcCall.ret = "tuple1"

\* ------------------------------------------------------------------------
\* C3. Cache expiry: once the ttl given to set(K, V, ttl) has elapsed with
\* no further set of K, get(K) is a miss at every tier.
\* ------------------------------------------------------------------------
C3_ExpiredIsMiss ==
    (/\ mlcCall.op = "get"
     /\ mlcCall.key \in DOMAIN lastSet
     /\ lastSet[mlcCall.key].left = 0)
        => mlcCall.tier = "miss"

\* ------------------------------------------------------------------------
\* C10. Tier order and promotion: MultiLevelCache.get answers from the
\* fastest tier holding the key (L1, then L2, then L3; a Redis that is not
\* configured or raises counts as not holding it); after a hit at L2 or L3
\* the key is in every faster tier with the value returned, and a get of the
\* same key that follows directly is an L1 hit.  UltimateCacheManager.get
\* answers from memory before Redis and copies a Redis hit, with a fresh
\* timestamp, into the memory tier, so that a get that follows directly is
\* a memory hit.
\* ------------------------------------------------------------------------
C10_MlcAfterGet ==
    (component = "mlc" /\ mlcCall.op = "get") =>
        LET k == mlcCall.key IN
        /\ mlcCall.pre.first \in {"l1", "l2"} => mlcCall.tier = mlcCall.pre.first
        /\ mlcCall.tier \in {mlcCall.pre.first, "miss"}
        /\ mlcCall.tier = "miss" => mlcCall.ret = None
        /\ mlcCall.tier \in {"l1", "l2", "l3"} =>
               (Has(l1_cache, k) /\ Entry(l1_cache, k).v = mlcCall.ret)
        /\ mlcCall.tier \in {"l2", "l3"} =>
               (Has(l2_cache, k) /\ Entry(l2_cache, k).v = mlcCall.ret)
        /\ mlcCall.tier = "l3" =>
               (RedisHas(k) /\ json_loads(l3_redis[k].text) = mlcCall.ret)

C10_UcmAfterGet ==
    (component = "ucm" /\ ucmCall.op = "get") =>
        LET k == ucmCall.key IN
        /\ ucmCall.inMemory <=> ucmCall.tier = "memory"
        /\ ucmCall.tier = "redis" => ucmCall.inRedis
        /\ ucmCall.tier = "miss" => ucmCall.ret = None
        /\ ucmCall.tier \in {"memory", "redis"} =>
               (k \in DOMAIN memory_cache /\ memory_cache[k] = ucmCall.ret)
        /\ ucmCall.tier = "redis" =>
               /\ memory_cache_timestamps[k] = now
               /\ json_loads(ucm_redis[k].text) = ucmCall.ret

C10_NextGetIsFastest ==
    /\ (/\ mlcCall.op = "get" /\ mlcCall.tier \in {"l2", "l3"}
        /\ mlcCall'.op = "get" /\ mlcCall'.key = mlcCall.key /\ hit_stats' # hit_stats)
           => (mlcCall'.tier = "l1" /\ mlcCall'.ret = mlcCall.ret)
    /\ (/\ ucmCall.op = "get" /\ ucmCall.tier = "redis"
        /\ ucmCall'.op = "get" /\ ucmCall'.key = ucmCall.key /\ stats' # stats)
           => (ucmCall'.tier = "memory" /\ ucmCall'.ret = ucmCall.ret)

C10_TierOrderPromotion ==
    /\ [](C10_MlcAfterGet /\ C10_UcmAfterGet)
    /\ [][C10_NextGetIsFastest]_vars

\* An L1 hit on a value that only a promotion from Redis can have put there.
C10_Witness ==
    /\ component = "mlc"
    /\ mlcCall.op = "get"
    /\ mlcCall.tier = "l1"
    /\ mlcCall.ret = "list1"
    /\ hit_stats["l3"] = 1

\* ------------------------------------------------------------------------
\* C7. Retry end-to-end: when upstream answers 503 four times and then 200,
\* fetch_with_retries(max_retries=5, delay=0.01) and
\* ResilientHTTPClient.get(retries=5, backoff=0.01) keep going through the
\* four failures, return the 200 body after exactly five requests, and have
\* slept 10, 20, 40 and 80 ms (150 ms in total).
\* ------------------------------------------------------------------------
RECURSIVE SumSeq(_)
SumSeq(q) == IF q = << >> THEN 0 ELSE Head(q) + SumSeq(Tail(q))

Scenario503 == <<503, 503, 503, 503, 200>>

C7_RetryEndToEnd ==
    (/\ component = "retry"
     /\ rCall.fn \in {"enhanced", "resilient"} /\ rCall.max = 5 /\ rCall.delay = 10
     /\ Len(responses) <= 5
     /\ responses = SubSeq(Scenario503, 1, Len(responses)))
        => /\ Len(responses) < 5 => (pc = "loop" /\ attempt = Len(responses))
           /\ Len(responses) = 5 =>
                 /\ pc = "done"
                 /\ result = "ok"
                 /\ sleeps = <<10, 20, 40, 80>>
                 /\ SumSeq(sleeps) = 150

C7_Witness ==
    /\ component = "retry"
    /\ rCall = [fn |-> "resilient", max |-> 5, delay |-> 10]
    /\ responses = Scenario503
    /\ pc = "done"

\* ------------------------------------------------------------------------
\* C8. Fatal errors are never retried: after a 4xx answer other than 429
\* the retrying fetchers issue no further request; a request is followed by
\* another one only after 429, a 5xx answer, a connection error or a timeout.
\* ------------------------------------------------------------------------
Retryable == {ConnError, 429, 500, 502, 503, 504}

C8_FatalNotRetried ==
    (component = "retry" /\ rCall.fn \in {"enhanced", "resilient", "suite"})
        => \A i \in 1..(Len(responses) - 1) : responses[i] \in Retryable

\* ------------------------------------------------------------------------
\* C9. Backoff delay is capped: no single backoff sleep exceeds a fixed cap
\* (30 s, the cap the design names), however many attempts are configured.
\* ------------------------------------------------------------------------
BackoffCap == 30 * 1000

C9_BackoffCapped ==
    component = "retry" => \A i \in 1..Len(sleeps) : sleeps[i] <= BackoffCap

\* ------------------------------------------------------------------------
\* C5. Rate limit enforcement: of the calls to is_rate_limited made for one
\* identifier within one window of the counter's opening, the backend being
\* healthy, call number n with limit L is rejected exactly when n > L: the
\* first L are admitted and call L+1 is the first one rejected.
\* ------------------------------------------------------------------------
C5_RateLimitEnforced ==
    (/\ component = "rl"
     /\ rlCall.op = "check"
     /\ rlHist[rlCall.id].healthy
     /\ rlHist[rlCall.id].age < window_seconds)
        => (rlCall.limited <=> rlHist[rlCall.id].calls > rlCall.limit)

\* Call number L+1 of a window, and it is rejected.
C5_Witness ==
    /\ component = "rl"
    /\ rlCall.op = "check"
    /\ rlCall.limit = 2
    /\ rlHist[rlCall.id].healthy
    /\ rlHist[rlCall.id].age = 1
    /\ rlHist[rlCall.id].calls = 3
    /\ rlCall.limited

C4_CircuitOpens ==
    component = "cb" =>
        /\ consecFailures >= failure_threshold => breaker.state = "open"
        /\ (cbCall.op = "get" /\ cbCall.failuresBefore >= failure_threshold)
               => (cbCall.rejected /\ ~cbCall.requested)

\* ------------------------------------------------------------------------
\* C11. L3 failures degrade silently: when Redis is absent or its command
\* raises, MultiLevelCache.get / set / delete and UltimateCacheManager.get /
\* set complete without raising (they never raise); set has stored the value in the in-process
\* tiers (L1 and L2; memory_cache with a fresh timestamp); get returns the
\* value of the fastest in-process tier holding the key, and None when no
\* in-process tier holds it.
\* ------------------------------------------------------------------------
C11_MlcDegrades ==
    component = "mlc" =>
        LET k == mlcCall.key IN
        /\ ~mlcCall.raised
        /\ mlcCall.down =>
           /\ mlcCall.op = "set" =>
                 /\ Has(l1_cache, k) /\ Entry(l1_cache, k).v = lastSet[k].value
                 /\ Has(l2_cache, k) /\ Entry(l2_cache, k).v = lastSet[k].value
           /\ mlcCall.op = "get" =>
                 /\ mlcCall.pre.first = "l1" =>
                       (mlcCall.tier = "l1" /\ mlcCall.ret = Entry(l1_cache, k).v)
                 /\ mlcCall.pre.first = "l2" =>
                       (mlcCall.tier = "l2" /\ mlcCall.ret = Entry(l2_cache, k).v)
                 /\ mlcCall.pre.first \in {"l3", "none"} =>
                       (mlcCall.tier = "miss" /\ mlcCall.ret = None)

C11_UcmDegrades ==
    component = "ucm" =>
        LET k == ucmCall.key IN
        /\ ~ucmCall.raised
        /\ ucmCall.down =>
           /\ ucmCall.op = "set" =>
                 /\ k \in DOMAIN memory_cache /\ memory_cache[k] = ucmCall.data
                 /\ memory_cache_timestamps[k] = now
           /\ ucmCall.op = "get" =>
                 IF ucmCall.inMemory
                 THEN ucmCall.tier = "memory" /\ ucmCall.ret = memory_cache[k]
                 ELSE ucmCall.tier = "miss" /\ ucmCall.ret = None

C11_RedisFailuresDegrade == C11_MlcDegrades /\ C11_UcmDegrades

\* Redis is configured, the SETEX of a set raised, and the value is in L1
\* and L2 but not in Redis.
C11_Witness ==
    /\ component = "mlc"
    /\ redis_available
    /\ mlcCall.op = "set"
    /\ mlcCall.down
    /\ ~mlcCall.raised
    /\ Has(l1_cache, mlcCall.key)
    /\ Has(l2_cache, mlcCall.key)
    /\ ~RedisHas(mlcCall.key)

\* ------------------------------------------------------------------------
\* C12. Concurrent cold reads: when M threads run get_cached_or_fetch(K, f)
\* at the same time on a key with no valid entry, f is invoked at most M
\* times in total, every caller returns with a result (the fetched or the
\* cached data, or the error value when its fetch raised), and once all
\* have returned the entry for K is the data and timestamp stored by the
\* last fetch that completed (last writer wins).
\* ------------------------------------------------------------------------
C12_AllDone == \A t \in Callers : callers[t].pc = "done"

C12_Safe ==
    component = "cold" =>
        /\ fetchCalls <= NumCallers
        /\ \A t \in Callers :
              callers[t].pc = "done" =>
                  /\ callers[t].ret.tag \in {"data", "error"}
                  /\ callers[t].ret.tag = "data" =>
                         \/ \E i \in 1..Len(writes) : writes[i].data = callers[t].ret.data
                         \/ \E c \in ColdCaches : c # << >> /\ c[ColdKey].data = callers[t].ret.data
        /\ Len(writes) <= fetchCalls
        /\ IF writes = << >>
           THEN cache \in ColdCaches
           ELSE /\ ColdKey \in DOMAIN cache
                /\ \E i \in 1..Len(writes) : cache[ColdKey] = writes[i]
                /\ C12_AllDone => cache[ColdKey] = writes[Len(writes)]

C12_ColdReads == []C12_Safe /\ <>(component = "cold" => C12_AllDone)

\* Every caller fetched, two of them stored different data, and the cache
\* holds what the second one stored.
C12_Witness ==
    /\ component = "cold"
    /\ C12_AllDone
    /\ fetchCalls = NumCallers
    /\ Len(writes) >= 2
    /\ writes[1].data # writes[2].data
    /\ writes[1].timestamp < writes[2].timestamp
    /\ cache[ColdKey] = writes[Len(writes)]

\* ------------------------------------------------------------------------
\* C13. Fan-out returns a result per source: fetch_multiple_endpoints
\* submits exactly one request per config and, when it ends, has returned
\* exactly one result per config, also when a request fails or is slower
\* than the batch timeout; the results already obtained are never lost.
\* ------------------------------------------------------------------------
C13_ResultPerSource ==
    component = "fan" =>
        /\ fanPc # "start" => DOMAIN futures = Configs
        /\ fanPc # "raised"
        /\ fanPc = "returned" =>
              /\ Len(results) = NumConfigs
              /\ \A c \in Configs : futures[c].yielded

\* ------------------------------------------------------------------------
\* C14. Typed failures: a failed fetch through
\* CryptoAnalysisSuite.fetch_with_retries or ResilientHTTPClient.get yields
\* a result that tells the failure class (non-retryable upstream rejection,
\* retries exhausted, timeout): no result value or error type is produced
\* by two different classes.  Each of the two functions has one failure
\* value, the one it yields when its loop has run out of attempts, so that
\* value has to come from exhausted retries and from nothing else.
\* ------------------------------------------------------------------------
\* The failure class of a fetch whose requests all ended the same way.
FailureClass(resp) ==
    CASE resp = ConnError -> "timeout"
      [] resp \in {429, 500, 502, 503, 504} -> "retries_exhausted"
      [] OTHER -> "upstream_rejection"

\* The class a failure value stands for.
ClassOfResult(r) ==
    CASE r \in {"Exception", None, "RuntimeError"} -> "retries_exhausted"
      [] r = "ConnectionError" -> "timeout"
      [] OTHER -> "upstream_rejection"

C14_TypedFailures ==
    (/\ component = "retry"
     /\ rCall.fn \in {"suite", "resilient"}
     /\ pc = "done"
     /\ result # "ok"
     /\ \A i \in 1..Len(responses) : responses[i] = responses[1])
        => ClassOfResult(result) = FailureClass(responses[1])

\* ------------------------------------------------------------------------
\* C15. Breakers are independent per source: failures of calls to one
\* service through UltimateHTTPClient.get never cause a call to another
\* service to be rejected by the circuit breaker; a call to a service is
\* rejected only after failure_threshold failures in a row of calls to that
\* same service.
\* ------------------------------------------------------------------------
C15_BreakersIndependent ==
    (component = "cb" /\ cbCall.op = "get" /\ cbCall.rejected)
        => svcFailures[cbCall.service] >= failure_threshold

\* ------------------------------------------------------------------------
\* C16. Half-open recovery: once the breaker guarding
\* UltimateHTTPClient.get has been Open for the recovery timeout, the next
\* call is let through as the one probe; when the probe succeeds (a 200
\* answer) the breaker is Closed after it, and when the probe fails
\* (non-200 status or exception) the breaker is Open again, so that the
\* call after a probe is never a second probe.
\* ------------------------------------------------------------------------
C16_HalfOpenRecovery ==
    (component = "cb" /\ cbCall.op = "get" /\ cbCall.stateBefore = "half_open") =>
        /\ cbCall.requested /\ ~cbCall.rejected
        /\ cbCall.ret = "json" => breaker.state = "closed"
        /\ cbCall.ret # "json" => BreakerState = "open"
        /\ BreakerState # "half_open"

\* ------------------------------------------------------------------------
\* C17. Fixed-window replenishment: the counter opened by an identifier's
\* first call is reset window_seconds after that call, so a call made more
\* than window_seconds after the call that opened the counter is admitted
\* (the store answering, limit >= 1), whatever number of calls were made in
\* between.
\* ------------------------------------------------------------------------
C17_WindowReplenished ==
    (/\ component = "rl"
     /\ rlCall.op = "check"
     /\ ~rlCall.error
     /\ rlHist[rlCall.id].age > window_seconds)
        => ~rlCall.limited

\* ------------------------------------------------------------------------
\* C18. Cache key is order-independent: for every prefix and every two
\* params dicts with the same items in different insertion order,
\* _generate_cache_key returns the same key; the key depends on nothing but
\* prefix and params (two calls with the same arguments give the same key).
\* ------------------------------------------------------------------------
Items(params) == {params[i] : i \in 1..Len(params)}

C18_KeyOrderIndependent ==
    component = "key" =>
        \A i, j \in 1..Len(keyLog) :
            (keyLog[i].prefix = keyLog[j].prefix
             /\ Items(keyLog[i].params) = Items(keyLog[j].params))
                => keyLog[i].key = keyLog[j].key

\* The same two items given in the two orders, and one key.
C18_Witness ==
    /\ component = "key"
    /\ Len(keyLog) >= 2
    /\ keyLog[1].prefix = keyLog[2].prefix
    /\ Len(keyLog[1].params) = 2
    /\ keyLog[1].params # keyLog[2].params
    /\ Items(keyLog[1].params) = Items(keyLog[2].params)
    /\ keyLog[1].key = keyLog[2].key

\* ------------------------------------------------------------------------
\* C19. Fresh hit makes no upstream call: whenever the cache holds an
\* unexpired entry for the key, get_cached_or_fetch returns that entry's
\* data without invoking fetch_function, and fetch_coingecko_data /
\* fetch_defillama_data / fetch_velo_data return the cached result without
\* issuing an HTTP request; the entry is left as it was.
\* ------------------------------------------------------------------------
C19_GcfFreshHit ==
    (component = "gcf" /\ now' = now) =>
        LET k == gcfCall'.key IN
        is_cache_valid(k) =>
            /\ ~gcfCall'.fetched
            /\ gcfCall'.ret.tag = "data"
            /\ gcfCall'.ret.data = cache[k].data
            /\ cache' = cache

C19_ScFreshHit ==
    (component = "sc" /\ now' = now) =>
        LET k == scCall'.key IN
        ScFresh(k) =>
            /\ ~scCall'.requested
            /\ scCall'.ret = sc_cache[k].result
            /\ sc_cache' = sc_cache
            /\ metrics'.request_count = metrics.request_count

C19_FreshHitNoUpstream == [][C19_GcfFreshHit /\ C19_ScFreshHit]_vars

\* A velo result fetched a second ago is returned from the cache: its
\* timestamp is older than now and no request has been made since.
C19_Witness ==
    /\ component = "sc"
    /\ scCall.op = "fetch"
    /\ ~scCall.requested
    /\ scCall.ret.success
    /\ scCall.ret.source = "velo"
    /\ scCall.ret.timestamp < now
    /\ metrics.cache_hits = 1
    /\ metrics.request_count = 1

\* ------------------------------------------------------------------------
\* C20. Write-through on fetch: when fetch_enhanced_data computes a value
\* on a cache miss, the value is stored at every configured cache tier (the
\* memory tier and, when Redis is available, Redis) before it is returned.
\* ------------------------------------------------------------------------
C20_WriteThrough ==
    (component = "enh" /\ ucmCall.op = "fetch_enhanced" /\ ucmCall.tier = "computed") =>
        LET k == ucmCall.key IN
        /\ k \in DOMAIN memory_cache
        /\ memory_cache[k] = ucmCall.ret
        /\ memory_cache_timestamps[k] = now
        /\ REDIS_AVAILABLE =>
              /\ k \in DOMAIN ucm_redis
              /\ json_loads(ucm_redis[k].text) = ucmCall.ret

\* ------------------------------------------------------------------------
\* C21. L1 is bounded with LRU eviction: the number of entries of
\* UltimateCacheManager's memory tier never exceeds a fixed capacity (here
\* one below the number of distinct keys stored, so that a full tier is
\* reached); storing a new key in a full tier evicts an entry.
\* ------------------------------------------------------------------------
L1Capacity == Cardinality(Keys) - 1

C21_MemoryBounded ==
    component = "ucm" =>
        Cardinality(DOMAIN memory_cache) <= L1Capacity

\* ------------------------------------------------------------------------
\* C22. Bounded attempts and termination: whatever upstream answers, one
\* call of ResilientHTTPClient.get(retries=n), of
\* enhanced_crypto_data_fetcher.fetch_with_retries(max_retries=n) or of
\* CryptoAnalysisSuite.fetch_with_retries(max_retries=n), n >= 1, issues at
\* most n HTTP requests and terminates, returning a value or reporting
\* failure.
\* ------------------------------------------------------------------------
C22_Bounded ==
    (component = "retry" /\ rCall.fn \in {"enhanced", "resilient", "suite"}) =>
        /\ Len(responses) <= rCall.max
        /\ pc = "loop" => (attempt < rCall.max /\ result = "running")
        /\ pc = "done" => result # "running"

C22_Terminated ==
    (component = "retry" /\ rCall.fn \in {"enhanced", "resilient", "suite"}) => pc = "done"

C22_BoundedAttempts == []C22_Bounded /\ <>C22_Terminated

\* All five attempts were used and the failure is reported.
C22_Witness ==
    /\ component = "retry"
    /\ rCall.fn = "enhanced"
    /\ rCall.max = 5
    /\ Len(responses) = 5
    /\ pc = "done"
    /\ result = "RuntimeError"

\* ------------------------------------------------------------------------
\* C23. Sleep only before a retry: in ResilientHTTPClient.get and
\* enhanced_crypto_data_fetcher.fetch_with_retries every backoff sleep is
\* followed by another HTTP request; once the call has ended, there have
\* been fewer sleeps than requests, so the failure of the last permitted
\* attempt (HTTP 429 included) is reported without sleeping first.
\* ------------------------------------------------------------------------
C23_SleepOnlyBeforeRetry ==
    (component = "retry" /\ rCall.fn \in {"enhanced", "resilient"}) =>
        /\ Len(sleeps) <= Len(responses)
        /\ pc = "done" => Len(sleeps) < Len(responses)

\* ------------------------------------------------------------------------
\* C24. Only successful fetches are cached: a cache entry is created or
\* replaced only by a fetch that succeeded, with what it fetched; when the
\* fetch fails (fetch_function raises in get_cached_or_fetch; non-200
\* status or exception in SuperClaudeAPIClient.fetch_*) the cache is left
\* exactly as it was, so the key has no fresh entry after the failed call
\* and the next call for it attempts the fetch again.
\* ------------------------------------------------------------------------
C24_GcfStep ==
    (component = "gcf" /\ now' = now) =>
        LET k == gcfCall'.key IN
        /\ gcfCall'.path = "failed" => cache' = cache
        /\ cache' # cache =>
              /\ gcfCall'.path = "fresh"
              /\ cache' = Put(cache, k, [data |-> gcfCall'.ret.data, timestamp |-> now])
        /\ (gcfCall.path = "failed" /\ k = gcfCall.key) => gcfCall'.fetched

C24_ScStep ==
    (component = "sc" /\ now' = now) =>
        LET k == scCall'.key IN
        /\ ~scCall'.ret.success => sc_cache' = sc_cache
        /\ sc_cache' # sc_cache =>
              /\ scCall'.requested /\ scCall'.ret.success
              /\ sc_cache' = Put(sc_cache, k, [result |-> scCall'.ret, time |-> now])
        /\ (scCall.op = "fetch" /\ ~scCall.ret.success /\ k = scCall.key) => scCall'.requested

C24_AfterFailure ==
    /\ (component = "gcf" /\ gcfCall.path = "failed") => ~is_cache_valid(gcfCall.key)
    /\ (component = "sc" /\ scCall.op = "fetch" /\ ~scCall.ret.success) => ~ScFresh(scCall.key)

C24_OnlySuccessCached == []C24_AfterFailure /\ [][C24_GcfStep /\ C24_ScStep]_vars

\* A fetch failed for a key whose entry had expired; the old entry is still
\* what the cache holds.
C24_Witness ==
    /\ component = "gcf"
    /\ gcfCall.path = "failed"
    /\ gcfCall.hadEntry
    /\ gcfCall.key \in DOMAIN cache
    /\ cache[gcfCall.key].data = gcfCall.prior

\* ------------------------------------------------------------------------
\* C25. Request cache ignores parameter order: two calls of
\* fetch_coingecko_data (fetch_defillama_data, fetch_velo_data) with the
\* same endpoint and params dicts that are equal but built in different
\* key order use the same cache entry: while the entry made for one of
\* them is fresh, a call with the other is served without an HTTP request.
\* ------------------------------------------------------------------------
ScSources == {"coingecko", "defillama", "velo"}

C25_Step ==
    (component = "sc" /\ now' = now) =>
        \A source \in ScSources, endpoint \in ScEndpoints, p1 \in ScParams, p2 \in ScParams :
            (/\ Items(p1) = Items(p2)
             /\ ScFresh(sc_cache_key(source, endpoint, p1))
             /\ scCall'.key = sc_cache_key(source, endpoint, p2))
                => (~scCall'.requested /\ scCall'.ret = sc_cache[sc_cache_key(source, endpoint, p1)].result)

C25_ParamOrderIgnored == [][C25_Step]_vars

\* C26: invalidate_pattern running beside a write or a get of a matching key:
\* no operation raises, and once every operation has finished memory_cache
\* and memory_cache_timestamps hold the same keys.
C26_InvalidationSafe ==
    component = "inv" =>
        /\ raisedOps = {}
        /\ (\A t \in Threads : thr[t].pc \in {"idle", "done"}) =>
               DOMAIN memory_cache = DOMAIN memory_cache_timestamps

\* C27: from the return of delete(K) to the next set(K, ...) the key K is in
\* no tier and every get(K) is a miss, also when the Redis delete fails
\* (lastSet holds exactly the keys set and not deleted since).
C27_DeleteEffective ==
    component = "mlc" =>
        \A k \in Keys \ DOMAIN lastSet :
            /\ ~Has(l1_cache, k)
            /\ ~Has(l2_cache, k)
            /\ ~RedisHas(k)
            /\ (mlcCall.op = "get" /\ mlcCall.key = k) => mlcCall.tier = "miss"

\* C28: memory_hits + redis_hits never exceeds total_requests, so the hit
\* rate reported by get_stats() stays between 0 and 100.
C28_HitRatePercentage ==
    component = "enh" =>
        stats.memory_hits + stats.redis_hits <= stats.total_requests

\* C29: a call of a function wrapped by cached_result whose entry is in the
\* cache does not invoke the function and returns the cached value, whatever
\* the function returned, None included.
C29_Memoised ==
    (component = "cr" /\ crCall.hadEntry) =>
        /\ ~crCall.invoked
        /\ crCall.ret = crCall.prior

\* C30: after any sequence of fetch_* calls request_count = successful_requests
\* + failed_requests, request_count = cache_misses and cache_hits +
\* cache_misses = the number of calls made; a call served from the cache
\* records a hit and no request.
C30_Counters ==
    component = "sc" =>
        /\ metrics.request_count = metrics.successful_requests + metrics.failed_requests
        /\ metrics.request_count = metrics.cache_misses
        /\ metrics.cache_hits + metrics.cache_misses = scFetches

C30_Step ==
    (component = "sc" /\ scFetches' = scFetches + 1) =>
        IF scCall'.requested
        THEN /\ metrics'.request_count = metrics.request_count + 1
             /\ metrics'.cache_misses = metrics.cache_misses + 1
             /\ metrics'.cache_hits = metrics.cache_hits
        ELSE /\ metrics'.request_count = metrics.request_count
             /\ metrics'.successful_requests = metrics.successful_requests
             /\ metrics'.failed_requests = metrics.failed_requests
             /\ metrics'.cache_misses = metrics.cache_misses
             /\ metrics'.cache_hits = metrics.cache_hits + 1

C30_CountersConsistent == []C30_Counters /\ [][C30_Step]_vars

C30_Witness ==
    /\ component = "sc"
    /\ scFetches = 3
    /\ metrics.cache_hits = 1
    /\ metrics.successful_requests = 1
    /\ metrics.failed_requests = 1
    /\ scCall.op = "fetch"

====
